---- MODULE Spec2Model ----
(***************************************************************************)
(* Model of hw/pci-host/pnv_phb4_pec.c: the POWER9 PHB4 PCI Express        *)
(* Controller (PEC): its two XSCOM register banks (nest, pci), the         *)
(* realization of the controller and of its stacks, the default PHB of a   *)
(* stack, and the device tree node it emits.                               *)
(*                                                                         *)
(* One controller is modelled, with its configuration (chip-id, index, the *)
(* chip's num_pecs, the machine's defaults policy) drawn at Init.          *)
(***************************************************************************)
EXTENDS Integers, Sequences, FiniteSets, TLC

(***************************************************************************)
(* Bounds of the model.                                                    *)
(***************************************************************************)
\* "index" property values tried: 0..MaxIndex (beyond the chip's num_pecs too)
MaxIndex == 3
\* register accesses made on one realized controller
MaxAccesses == 2

\* 64-bit values a guest writes.  A handler stores and returns a uint64_t as it
\* is, with no arithmetic on it, so two representatives stand for all values.
\* A read of memory outside an array may yield any of them, or zero.
Values == {4660, 2147483647}
ChipIds == {0}

(***************************************************************************)
(* Declarations of include/hw/pci-host/pnv_phb4_regs.h,                    *)
(* include/hw/pci-host/pnv_phb4.h and include/hw/ppc/pnv_xscom.h, which    *)
(* pnv_phb4_pec.c uses by name.                                            *)
(***************************************************************************)
PEC_NEST_PBCQ_HW_CONFIG == 0
PEC_NEST_DROP_PRIO_CTRL == 1
PEC_NEST_PBCQ_ERR_INJECT == 2
PEC_NEST_PCI_NEST_CLK_TRACE_CTL == 3
PEC_NEST_PBCQ_PMON_CTRL == 4
PEC_NEST_PBCQ_PBUS_ADDR_EXT == 5
PEC_NEST_PBCQ_PRED_VEC_TIMEOUT == 6
PEC_NEST_CAPP_CTRL == 7
PEC_NEST_PBCQ_READ_STK_OVR == 8
PEC_NEST_PBCQ_WRITE_STK_OVR == 9
PEC_NEST_PBCQ_STORE_STK_OVR == 10
PEC_NEST_PBCQ_RETRY_BKOFF_CTRL == 11
PEC_PCI_PBAIB_HW_CONFIG == 0
PEC_PCI_PBAIB_READ_STK_OVR == 2
\* capacity of nest_regs[] and of pci_regs[]: every writable register of a
\* bank lies inside the bank
PHB4_PEC_NEST_REGS_COUNT == 15
PHB4_PEC_PCI_REGS_COUNT == 3
PHB4_PEC_MAX_STACKS == 3
PNV9_XSCOM_PEC_NEST_BASE == 67177472
PNV9_XSCOM_PEC_NEST_SIZE == 256
PNV9_XSCOM_PEC_PCI_BASE == 218171392
PNV9_XSCOM_PEC_PCI_SIZE == 512

\* the strides of pnv_pec_xscom_nest_base and pnv_pec_xscom_pci_base
NEST_STRIDE == 1024
PCI_STRIDE == 16777216

(***************************************************************************)
(* PEC0 -> 1 stack, PEC1 -> 2 stacks, PEC2 -> 3 stacks                     *)
(***************************************************************************)
pnv_pec_num_stacks == [i \in 0..2 |-> i + 1]

\* the chip class's num_pecs: at most the length of pnv_pec_num_stacks
NumPecs == 1..3

Stacks == 0..(PHB4_PEC_MAX_STACKS - 1)

VARIABLES
    chip_id,        \* pec->chip_id
    index,          \* pec->index
    num_pecs,       \* PNV_CHIP_GET_CLASS(pec->chip)->num_pecs
    defaults,       \* defaults_enabled()
    pc,             \* "init" (instance_init done), "realized", "failed"
    errp,           \* the error realize reported, "" when none
    num_stacks,     \* pec->num_stacks
    stacks,         \* pec->stacks[]
    nest_regs,      \* pec->nest_regs[]
    pci_regs,       \* pec->pci_regs[]
    nest_regs_mr,   \* size of the nest XSCOM region, 0: not initialised
    pci_regs_mr,    \* size of the pci XSCOM region, 0: not initialised
    guest_errors,   \* LOG_GUEST_ERROR messages emitted so far
    naccess,        \* register accesses made so far
    last            \* the last call made on the realized controller, its result

vars == <<chip_id, index, num_pecs, defaults, pc, errp, num_stacks, stacks,
          nest_regs, pci_regs, nest_regs_mr, pci_regs_mr, guest_errors,
          naccess, last>>

config == <<chip_id, index, num_pecs, defaults>>

NoPhb == [realized |-> FALSE, chip_id |-> -1, index |-> -1,
          version |-> "", stack |-> -1]

(***************************************************************************)
(* uint32_t reg = addr >> 3.  The byte offsets tried are far below 2^35,   *)
(* so the conversion to uint32_t cuts nothing off.                         *)
(***************************************************************************)
RegOf(addr) == addr \div 8

(***************************************************************************)
(* Register banks.  A bank is a function over 0..COUNT-1; an access at an  *)
(* index outside it touches memory outside the array ("oob").              *)
(***************************************************************************)
ReadValues(regs, reg) ==
    IF reg \in DOMAIN regs THEN {regs[reg]} ELSE Values \cup {0}

Store(regs, reg, val) ==
    IF reg \in DOMAIN regs THEN [regs EXCEPT ![reg] = val] ELSE regs

nest_write_cases ==
    { PEC_NEST_PBCQ_HW_CONFIG, PEC_NEST_DROP_PRIO_CTRL,
      PEC_NEST_PBCQ_ERR_INJECT, PEC_NEST_PCI_NEST_CLK_TRACE_CTL,
      PEC_NEST_PBCQ_PMON_CTRL, PEC_NEST_PBCQ_PBUS_ADDR_EXT,
      PEC_NEST_PBCQ_PRED_VEC_TIMEOUT, PEC_NEST_CAPP_CTRL,
      PEC_NEST_PBCQ_READ_STK_OVR, PEC_NEST_PBCQ_WRITE_STK_OVR,
      PEC_NEST_PBCQ_STORE_STK_OVR, PEC_NEST_PBCQ_RETRY_BKOFF_CTRL }

pci_write_cases ==
    { PEC_PCI_PBAIB_HW_CONFIG, PEC_PCI_PBAIB_READ_STK_OVR }

\* phb_pec_error(pec, "%s @0x%"HWADDR_PRIx"=%"PRIx64"\n", __func__, addr, val)
phb_pec_error(func, addr, val) ==
    [chip_id |-> chip_id, index |-> index, func |-> func,
     addr |-> addr, val |-> val]

\* the switch of a write handler: what it leaves in the bank and in the log
XscomWrite(regs, cases, func, addr, val) ==
    LET reg == RegOf(addr) IN
    IF reg \in cases
    THEN [regs |-> Store(regs, reg, val), log |-> <<>>,
          stored |-> TRUE, oob |-> reg \notin DOMAIN regs]
    ELSE [regs |-> regs, log |-> <<phb_pec_error(func, addr, val)>>,
          stored |-> FALSE, oob |-> FALSE]

\* a write handler whose default branch logs and stores all the same
NestWrite_default_stores(regs, addr, val) ==
    LET reg == RegOf(addr) IN
    IF reg \in nest_write_cases
    THEN [regs |-> Store(regs, reg, val), log |-> <<>>,
          stored |-> TRUE, oob |-> reg \notin DOMAIN regs]
    ELSE [regs |-> Store(regs, reg, val),
          log |-> <<phb_pec_error("pnv_pec_nest_xscom_write", addr, val)>>,
          stored |-> FALSE, oob |-> reg \notin DOMAIN regs]

\* a write handler whose switch lacks the PEC_NEST_DROP_PRIO_CTRL case
NestWrite_no_drop_prio(regs, addr, val) ==
    XscomWrite(regs, nest_write_cases \ {PEC_NEST_DROP_PRIO_CTRL},
               "pnv_pec_nest_xscom_write", addr, val)

NestWrite(regs, addr, val) ==
    XscomWrite(regs, nest_write_cases, "pnv_pec_nest_xscom_write", addr, val)

\* a write handler whose switch lacks the PEC_PCI_PBAIB_READ_STK_OVR case
PciWrite_missing_case(regs, addr, val) ==
    XscomWrite(regs, {PEC_PCI_PBAIB_HW_CONFIG}, "pnv_pec_pci_xscom_write",
               addr, val)

PciWrite(regs, addr, val) ==
    XscomWrite(regs, pci_write_cases, "pnv_pec_pci_xscom_write", addr, val)

NestRead(regs, addr) == ReadValues(regs, RegOf(addr))

PciRead(regs, addr) == ReadValues(regs, RegOf(addr))

\* pnv_xscom_region_init(mr, ..., size): a window of size << 3 bytes.  With
\* .valid.min_access_size = .valid.max_access_size = 8 the memory core hands a
\* handler the 8-byte aligned offsets inside the window, and no other.
WindowAddrs(size) == {a \in 0..(8 * size - 1) : a % 8 = 0}

\* byte offsets a handler is called with directly: every register of a bank of
\* `count` registers, an offset inside a register, and offsets past the bank
AnyAddrs(count) == {8 * r : r \in 0..(count + 1)} \cup {12}

Init ==
    /\ chip_id \in ChipIds
    /\ index \in 0..MaxIndex
    /\ num_pecs \in NumPecs
    /\ defaults \in BOOLEAN
    /\ pc = "init"
    /\ errp = ""
    /\ num_stacks = 0
    /\ stacks = [i \in Stacks |->
                   [child |-> TRUE, realized |-> FALSE, stack_no |-> 0,
                    pec |-> FALSE, phb |-> NoPhb, phb_runs |-> 0]]
    /\ nest_regs = [r \in 0..(PHB4_PEC_NEST_REGS_COUNT - 1) |-> 0]
    /\ pci_regs = [r \in 0..(PHB4_PEC_PCI_REGS_COUNT - 1) |-> 0]
    /\ nest_regs_mr = 0
    /\ pci_regs_mr = 0
    /\ guest_errors = <<>>
    /\ naccess = 0
    /\ last = [op |-> "none"]

CanAccess == pc = "realized" /\ naccess < MaxAccesses

pnv_pec_nest_xscom_read(addr) ==
    /\ CanAccess
    /\ \E v \in NestRead(nest_regs, addr) :
         last' = [op |-> "read", bank |-> "nest", addr |-> addr, ret |-> v,
                  oob |-> RegOf(addr) \notin DOMAIN nest_regs]
    /\ naccess' = naccess + 1
    /\ UNCHANGED <<config, pc, errp, num_stacks, stacks, nest_regs, pci_regs,
                   nest_regs_mr, pci_regs_mr, guest_errors>>

pnv_pec_nest_xscom_write(addr, val) ==
    /\ CanAccess
    /\ LET w == NestWrite(nest_regs, addr, val) IN
         /\ nest_regs' = w.regs
         /\ guest_errors' = guest_errors \o w.log
         /\ last' = [op |-> "write", bank |-> "nest", addr |-> addr,
                     val |-> val, stored |-> w.stored, oob |-> w.oob,
                     result |-> "ok"]
    /\ naccess' = naccess + 1
    /\ UNCHANGED <<config, pc, errp, num_stacks, stacks, pci_regs,
                   nest_regs_mr, pci_regs_mr>>

pnv_pec_pci_xscom_read(addr) ==
    /\ CanAccess
    /\ \E v \in PciRead(pci_regs, addr) :
         last' = [op |-> "read", bank |-> "pci", addr |-> addr, ret |-> v,
                  oob |-> RegOf(addr) \notin DOMAIN pci_regs]
    /\ naccess' = naccess + 1
    /\ UNCHANGED <<config, pc, errp, num_stacks, stacks, nest_regs, pci_regs,
                   nest_regs_mr, pci_regs_mr, guest_errors>>

pnv_pec_pci_xscom_write(addr, val) ==
    /\ CanAccess
    /\ LET w == PciWrite(pci_regs, addr, val) IN
         /\ pci_regs' = w.regs
         /\ guest_errors' = guest_errors \o w.log
         /\ last' = [op |-> "write", bank |-> "pci", addr |-> addr,
                     val |-> val, stored |-> w.stored, oob |-> w.oob,
                     result |-> "ok"]
    /\ naccess' = naccess + 1
    /\ UNCHANGED <<config, pc, errp, num_stacks, stacks, nest_regs,
                   nest_regs_mr, pci_regs_mr>>

(***************************************************************************)
(* pnv_phb4_pec_get_phb_id(pec, stack_index): the PHB index of a stack is  *)
(* the number of stacks of the controllers before this one, plus the       *)
(* stack's position.                                                       *)
(***************************************************************************)
RECURSIVE StacksBefore(_)
StacksBefore(idx) ==
    IF idx <= 0 THEN 0
    ELSE (IF idx - 1 \in DOMAIN pnv_pec_num_stacks
          THEN pnv_pec_num_stacks[idx - 1] ELSE 0) + StacksBefore(idx - 1)

pnv_phb4_pec_get_phb_id(idx, stack_index) == StacksBefore(idx) + stack_index

(***************************************************************************)
(* Realization of a stack.  `slot` is the position of the stack object in  *)
(* pec->stacks[], `ok` what sysbus_realize() of its PHB would return.      *)
(***************************************************************************)
pnv_pec_stk_default_phb_realize(slot, stack, ok) ==
    [stack |-> [stack EXCEPT
                  !.phb = [realized |-> ok,
                           chip_id |-> chip_id,
                           index |-> pnv_phb4_pec_get_phb_id(index,
                                                             stack.stack_no),
                           version |-> "PNV_PHB4_VERSION",
                           stack |-> slot],
                  !.phb_runs = @ + 1],
     ok |-> ok]

\* a stack realize that does not ask defaults_enabled()
stk_realize_always(slot, stack, ok) ==
    pnv_pec_stk_default_phb_realize(slot, stack, ok)

\* a stack realize that drops the error of its PHB
stk_realize_swallow(slot, stack, ok) ==
    IF ~defaults
    THEN [stack |-> stack, ok |-> TRUE]
    ELSE [pnv_pec_stk_default_phb_realize(slot, stack, ok) EXCEPT !.ok = TRUE]

pnv_pec_stk_realize(slot, stack, ok) ==
    IF ~defaults
    THEN [stack |-> stack, ok |-> TRUE]
    ELSE pnv_pec_stk_default_phb_realize(slot, stack, ok)

\* "stack-no" left at its default
SetStackProps_zero(stack, i) == [stack EXCEPT !.stack_no = 0, !.pec = TRUE]

\* object_property_set_int(stk_obj, "stack-no", i) and
\* object_property_set_link(stk_obj, "pec", OBJECT(pec))
SetStackProps(stack, i) == [stack EXCEPT !.stack_no = i, !.pec = TRUE]

\* qdev_realize(DEVICE(stk_obj), NULL, errp): the device is realized when its
\* realize hook set no error
QdevRealizeStack(i, stack, ok) ==
    LET r == pnv_pec_stk_realize(i, stack, ok) IN
    [stack |-> [r.stack EXCEPT !.realized = r.ok], ok |-> r.ok]

\* the "Create stacks" loop, from position i: it returns at the first stack
\* whose realization fails.  `bad`: the stacks whose PHB fails to realize.
RECURSIVE CreateStacks(_, _, _, _)
CreateStacks(stks, i, n, bad) ==
    IF i >= n
    THEN [stacks |-> stks, ok |-> TRUE]
    ELSE LET r == QdevRealizeStack(i, SetStackProps(stks[i], i), i \notin bad)
             stks1 == [stks EXCEPT ![i] = r.stack]
         IN  IF ~r.ok
             THEN [stacks |-> stks1, ok |-> FALSE]
             ELSE CreateStacks(stks1, i + 1, n, bad)

\* an unparent loop that starts one slot late
UnparentFrom_skip_first(stks, from) ==
    [i \in DOMAIN stks |->
        IF i > from THEN [stks[i] EXCEPT !.child = FALSE] ELSE stks[i]]

\* for (; i < PHB4_PEC_MAX_STACKS; i++) object_unparent(&pec->stacks[i])
UnparentFrom(stks, from) ==
    [i \in DOMAIN stks |->
        IF i >= from THEN [stks[i] EXCEPT !.child = FALSE] ELSE stks[i]]

\* an index check that is off by one
InvalidIndex_off_by_one(idx, count) == idx > count

\* pec->index >= PNV_CHIP_GET_CLASS(pec->chip)->num_pecs
InvalidIndex(idx, count) == idx >= count

\* pecc->num_stacks[pec->index]; a read past the table yields any value
NumStacksOf(idx) ==
    IF idx \in DOMAIN pnv_pec_num_stacks
    THEN {pnv_pec_num_stacks[idx]}
    ELSE 0..PHB4_PEC_MAX_STACKS

pnv_pec_realize ==
    /\ pc = "init"
    /\ IF InvalidIndex(index, num_pecs)
       THEN /\ errp' = "invalid PEC index"
            /\ pc' = "failed"
            /\ UNCHANGED <<num_stacks, stacks, nest_regs_mr, pci_regs_mr>>
       ELSE \E n \in NumStacksOf(index), bad \in SUBSET Stacks :
              LET r == CreateStacks(stacks, 0, n, bad) IN
              /\ num_stacks' = n
              /\ IF ~r.ok
                 THEN /\ stacks' = r.stacks
                      /\ errp' = "PHB realize failed"
                      /\ pc' = "failed"
                      /\ UNCHANGED <<nest_regs_mr, pci_regs_mr>>
                 ELSE /\ stacks' = UnparentFrom(r.stacks, n)
                      /\ nest_regs_mr' = PHB4_PEC_NEST_REGS_COUNT
                      /\ pci_regs_mr' = PHB4_PEC_PCI_REGS_COUNT
                      /\ errp' = ""
                      /\ pc' = "realized"
    /\ UNCHANGED <<config, nest_regs, pci_regs, guest_errors, naccess, last>>

(***************************************************************************)
(* XSCOM bases of the controller of a given index.                         *)
(* uint32_t arithmetic: for every index tried the sums stay below 2^31, so  *)
(* nothing is reduced modulo 2^32.                                         *)
pnv_pec_xscom_pci_base(idx) == PNV9_XSCOM_PEC_PCI_BASE + PCI_STRIDE * idx

\* a nest stride smaller than a nest window
nest_base_small_stride(idx) == PNV9_XSCOM_PEC_NEST_BASE + 64 * idx

pnv_pec_xscom_nest_base(idx) == PNV9_XSCOM_PEC_NEST_BASE + NEST_STRIDE * idx

\* cpu_to_be32: the four bytes of a word, most significant first
cpu_to_be32(x) ==
    << (x \div 16777216) % 256, (x \div 65536) % 256,
       (x \div 256) % 256, x % 256 >>

(***************************************************************************)
(* The device tree node of the controller, and one subnode per stack, in   *)
(* the order the nodes are added.                                          *)
(***************************************************************************)
StackNode(i) ==
    [name |-> <<"stack@", i>>,
     compatible |-> "ibm,power9-phb-stack",
     reg |-> i,
     phb_index |-> pnv_phb4_pec_get_phb_id(index, i)]

DtNode ==
    LET nbase == pnv_pec_xscom_nest_base(index)
        pbase == pnv_pec_xscom_pci_base(index)
    IN  [op |-> "dt",
         name |-> <<"pbcq@", nbase>>,
         reg |-> << cpu_to_be32(nbase), cpu_to_be32(PNV9_XSCOM_PEC_NEST_SIZE),
                    cpu_to_be32(pbase), cpu_to_be32(PNV9_XSCOM_PEC_PCI_SIZE) >>,
         pec_index |-> index,
         address_cells |-> 1,
         size_cells |-> 0,
         compatible |-> "ibm,power9-pbcq",
         stacks |-> [k \in 1..num_stacks |-> StackNode(k - 1)]]

pnv_pec_dt_xscom ==
    /\ pc = "realized"
    /\ last' = DtNode
    /\ UNCHANGED <<config, pc, errp, num_stacks, stacks, nest_regs, pci_regs,
                   nest_regs_mr, pci_regs_mr, guest_errors, naccess>>

\* the chip maps the two windows of the sibling controller of index j at
\* pecc->xscom_nest_base(pec) and pecc->xscom_pci_base(pec)
xscom_bases(j) ==
    /\ pc = "realized"
    /\ last' = [op |-> "bases", index |-> j,
                nest_base |-> pnv_pec_xscom_nest_base(j),
                nest_size |-> PNV9_XSCOM_PEC_NEST_SIZE,
                pci_base |-> pnv_pec_xscom_pci_base(j),
                pci_size |-> PNV9_XSCOM_PEC_PCI_SIZE]
    /\ UNCHANGED <<config, pc, errp, num_stacks, stacks, nest_regs, pci_regs,
                   nest_regs_mr, pci_regs_mr, guest_errors, naccess>>

Next ==
    \/ pnv_pec_realize
    \/ pnv_pec_dt_xscom
    \/ \E j \in 0..(num_pecs - 1) : xscom_bases(j)
    \/ \E addr \in WindowAddrs(nest_regs_mr) :
         pnv_pec_nest_xscom_read(addr)
    \/ \E addr \in WindowAddrs(nest_regs_mr), val \in Values :
         pnv_pec_nest_xscom_write(addr, val)
    \/ \E addr \in WindowAddrs(pci_regs_mr) :
         pnv_pec_pci_xscom_read(addr)
    \/ \E addr \in WindowAddrs(pci_regs_mr), val \in Values :
         pnv_pec_pci_xscom_write(addr, val)

Spec == Init /\ [][Next]_vars

(***************************************************************************)
(* The handlers called with any byte offset, inside the window or not.     *)
(***************************************************************************)
NextAny ==
    \/ pnv_pec_realize
    \/ pnv_pec_dt_xscom
    \/ \E j \in 0..(num_pecs - 1) : xscom_bases(j)
    \/ \E addr \in AnyAddrs(PHB4_PEC_NEST_REGS_COUNT) :
         pnv_pec_nest_xscom_read(addr)
    \/ \E addr \in AnyAddrs(PHB4_PEC_NEST_REGS_COUNT), val \in Values :
         pnv_pec_nest_xscom_write(addr, val)
    \/ \E addr \in AnyAddrs(PHB4_PEC_PCI_REGS_COUNT) :
         pnv_pec_pci_xscom_read(addr)
    \/ \E addr \in AnyAddrs(PHB4_PEC_PCI_REGS_COUNT), val \in Values :
         pnv_pec_pci_xscom_write(addr, val)

SpecAny == Init /\ [][NextAny]_vars

(***************************************************************************)
(* Properties.                                                             *)
(***************************************************************************)
\* the nest registers section 6 of the specification lists as writable
NestEnumerated ==
    { PEC_NEST_PBCQ_HW_CONFIG, PEC_NEST_PBCQ_ERR_INJECT,
      PEC_NEST_PCI_NEST_CLK_TRACE_CTL, PEC_NEST_PBCQ_PMON_CTRL,
      PEC_NEST_PBCQ_PBUS_ADDR_EXT, PEC_NEST_PBCQ_PRED_VEC_TIMEOUT,
      PEC_NEST_CAPP_CTRL, PEC_NEST_PBCQ_READ_STK_OVR,
      PEC_NEST_PBCQ_WRITE_STK_OVR, PEC_NEST_PBCQ_STORE_STK_OVR,
      PEC_NEST_PBCQ_RETRY_BKOFF_CTRL }

\* the same, and drop-priority-control
NestWhitelist == NestEnumerated \cup {PEC_NEST_DROP_PRIO_CTRL}

PciWhitelist == {PEC_PCI_PBAIB_HW_CONFIG, PEC_PCI_PBAIB_READ_STK_OVR}

Whitelist(bank) == IF bank = "nest" THEN NestWhitelist ELSE PciWhitelist

Bank(bank) == IF bank = "nest" THEN nest_regs ELSE pci_regs

\* this step is a register access
AccessStep == naccess' = naccess + 1

Thm_C2_RejectedWrite ==
    [][ ( /\ AccessStep
          /\ last'.op = "write"
          /\ RegOf(last'.addr) \notin Whitelist(last'.bank) )
        => ( /\ nest_regs' = nest_regs
             /\ pci_regs' = pci_regs
             /\ Len(guest_errors') = Len(guest_errors) + 1
             /\ SubSeq(guest_errors', 1, Len(guest_errors)) = guest_errors
             /\ guest_errors'[Len(guest_errors')].addr = last'.addr
             /\ guest_errors'[Len(guest_errors')].val = last'.val
             /\ last'.result = "ok" ) ]_vars

Wit_C2_RejectedWrite ==
    /\ last.op = "write"
    /\ last.bank = "pci"
    /\ RegOf(last.addr) = 1
    /\ pci_regs[PEC_PCI_PBAIB_HW_CONFIG] = 4660
    /\ pci_regs[1] = 0
    /\ Len(guest_errors) = 1

\* what a nest write does when exactly the registers of `allowed` are
\* writable: it stores the value in an allowed register and logs nothing, and
\* it stores nothing and logs one diagnostic for any other register
NestWriteObeys(allowed) ==
    ( /\ AccessStep
      /\ last'.op = "write"
      /\ last'.bank = "nest" )
    => /\ pci_regs' = pci_regs
       /\ IF RegOf(last'.addr) \in allowed
          THEN /\ nest_regs' =
                    [nest_regs EXCEPT ![RegOf(last'.addr)] = last'.val]
               /\ guest_errors' = guest_errors
          ELSE /\ nest_regs' = nest_regs
               /\ Len(guest_errors') = Len(guest_errors) + 1

\* C3, as stated: a nest write is stored only for the eleven registers
\* hardware-config, error-injection, clock-trace-control,
\* performance-monitor-control, address-extension, prediction-timeout,
\* capp-control, read-, write- and store-stack-override and
\* retry-backoff-control; any other is rejected with a diagnostic.
Orig_C3_NestWhitelist == [][NestWriteObeys(NestEnumerated)]_vars

\* C3, amended: a nest write is stored exactly for those eleven registers and
\* drop-priority-control; any other is rejected with a diagnostic and stores
\* nothing.
Thm_C3_NestWhitelist == [][NestWriteObeys(NestWhitelist)]_vars

Wit_C3_NestWhitelist ==
    /\ last.op = "write"
    /\ last.bank = "nest"
    /\ RegOf(last.addr) = PEC_NEST_DROP_PRIO_CTRL
    /\ nest_regs[PEC_NEST_DROP_PRIO_CTRL] = last.val
    /\ guest_errors = <<>>

Live(i) == stacks[i].child

\* C5, as stated: when the index is at or beyond the chip's controller count,
\* realization fails with an error, no register window is initialised and no
\* stack, the slots allocated at instance creation included, is left live.
Orig_C5_InvalidIndex ==
    (pc # "init" /\ index >= num_pecs) =>
        /\ pc = "failed"
        /\ errp # ""
        /\ nest_regs_mr = 0
        /\ pci_regs_mr = 0
        /\ \A i \in Stacks : ~Live(i)

\* C5, amended: when the index is at or beyond the chip's controller count,
\* realization fails with an error, no register window is initialised, no
\* stack is realized or owns a PHB and num_stacks is not set; the slots
\* allocated at instance creation are not torn down, they stay initialised
\* children of the controller.
Thm_C5_InvalidIndex ==
    (pc # "init" /\ index >= num_pecs) =>
        /\ pc = "failed"
        /\ errp = "invalid PEC index"
        /\ nest_regs_mr = 0
        /\ pci_regs_mr = 0
        /\ num_stacks = 0
        /\ \A i \in Stacks :
             /\ Live(i)
             /\ ~stacks[i].realized
             /\ ~stacks[i].pec
             /\ stacks[i].phb = NoPhb

Wit_C5_InvalidIndex == pc = "failed" /\ index >= num_pecs /\ index = 1

C6_Realized ==
    pc = "realized" =>
        /\ index < num_pecs
        /\ num_stacks = index + 1
        /\ \A i \in Stacks :
             IF i < num_stacks
             THEN /\ Live(i)
                  /\ stacks[i].realized
                  /\ stacks[i].stack_no = i
                  /\ stacks[i].pec
             ELSE /\ ~Live(i)
                  /\ ~stacks[i].realized

C6_Stable ==
    pc = "realized" =>
        /\ pc' = "realized"
        /\ num_stacks' = num_stacks
        /\ stacks' = stacks

\* C6: after a successful realization of the controller of index i,
\* num_stacks is i + 1 (0->1, 1->2, 2->3), the live stacks are exactly the
\* slots 0..num_stacks-1, each with stack_no equal to its position and a link
\* to the controller, every later slot has been torn down, and neither
\* num_stacks nor any stack changes under later register accesses and device
\* tree emissions.
Thm_C6_Stacks == []C6_Realized /\ [][C6_Stable]_vars

Wit_C6_Stacks ==
    /\ pc = "realized"
    /\ index = 1
    /\ naccess = MaxAccesses
    /\ last.op = "dt"
    /\ ~Live(2)

Disjoint(b1, s1, b2, s2) == b1 + s1 <= b2 \/ b2 + s2 <= b1

\* C8: the nest windows of two sibling controllers of different indices do
\* not intersect, and neither do their pci windows.
Thm_C8_NoOverlap ==
    (last.op = "bases" /\ last.index # index) =>
        /\ Disjoint(last.nest_base, last.nest_size,
                    pnv_pec_xscom_nest_base(index), PNV9_XSCOM_PEC_NEST_SIZE)
        /\ Disjoint(last.pci_base, last.pci_size,
                    pnv_pec_xscom_pci_base(index), PNV9_XSCOM_PEC_PCI_SIZE)

Wit_C8_NoOverlap ==
    /\ last.op = "bases"
    /\ last.index = 2
    /\ index = 1
    /\ last.nest_base = PNV9_XSCOM_PEC_NEST_BASE + 2048

\* C9: the default PHB of a stack is created at most once, and only for a
\* live stack: after a successful realization every live stack owns a PHB
\* exactly when the defaults policy is enabled, and no PHB is ever created for
\* a slot at or beyond num_stacks.
Thm_C9_DefaultPhbOnce ==
    /\ \A i \in Stacks :
         /\ stacks[i].phb_runs <= 1
         /\ (stacks[i].phb # NoPhb) = (stacks[i].phb_runs = 1)
         /\ stacks[i].phb_runs = 1 => defaults
         /\ (pc # "init" /\ i >= num_stacks) => stacks[i].phb_runs = 0
    /\ pc = "realized" =>
         \A i \in Stacks : i < num_stacks =>
             (stacks[i].phb # NoPhb /\ stacks[i].phb.realized) = defaults

Wit_C9_DefaultPhbOnce ==
    /\ pc = "realized"
    /\ defaults
    /\ num_stacks = 2
    /\ stacks[1].phb_runs = 1
    /\ stacks[2].phb_runs = 0

PhbFailed(k) == stacks[k].phb # NoPhb /\ ~stacks[k].phb.realized

\* C10: when the default PHB of the live stack k fails to realize, the
\* controller's realization reports an error and never completes, no stack
\* after k is realized, and the two register windows are not initialised.
Thm_C10_PhbFailure ==
    \A k \in Stacks : PhbFailed(k) =>
        /\ pc = "failed"
        /\ errp # ""
        /\ ~stacks[k].realized
        /\ \A j \in Stacks : j > k =>
             /\ ~stacks[j].realized
             /\ stacks[j].phb_runs = 0
        /\ nest_regs_mr = 0
        /\ pci_regs_mr = 0

Wit_C10_PhbFailure ==
    /\ pc = "failed"
    /\ index = 2
    /\ stacks[0].realized
    /\ PhbFailed(1)
    /\ ~stacks[2].realized

====
